---- MODULE Spec2Model ----
(***************************************************************************)
(* Bootstring/Punycode codec of ts-punycode (src/src/punycode.ts).         *)
(*                                                                         *)
(* A string is a sequence of UTF-16 code units (natural numbers); a code   *)
(* point array is a sequence of natural numbers.  Source indices are       *)
(* 0-based, TLA+ sequences are 1-based: the source's s[j] is s[j + 1].     *)
(*                                                                         *)
(* decode and encode are modelled as a step function on a record of the    *)
(* call's local variables (field pc is the position in the function body): *)
(* one step per iteration of the loops that do the Bootstring arithmetic,  *)
(* one step for each loop that only scans or copies.  The function itself  *)
(* is the step function run to completion.                                 *)
(***************************************************************************)
EXTENDS Integers, Sequences, FiniteSets, TLC

(***************************************************************************)
(* Program constants                                                       *)
(***************************************************************************)
maxInt == 2147483647
base == 36
tMin == 1
tMax == 26
skew == 38
damp == 700
initialBias == 72
initialN == 128
delimiter == 45
baseMinusTMin == base - tMin

\* More steps than any call of the model takes.
MaxSteps == 4096

\* Largest code point String.fromCodePoint accepts (ECMAScript).
MaxCodePoint == 1114111

\* Code units with a role in the source.
AtSign == 64
FullStop == 46
regexSeparators == {46, 12290, 65294, 65377}
xnPrefix == <<120, 110, 45, 45>>

(***************************************************************************)
(* Results of a call: a returned string, or the kind of error thrown.      *)
(* "overflow", "not-basic" and "invalid-input" are the keys of             *)
(* PUNYCODE_ERRORS; "invalid-code-point" is the RangeError that the        *)
(* built-in String.fromCodePoint throws.                                   *)
(***************************************************************************)
Ok(s) == [kind |-> "ok", val |-> s]
Err(type) == [kind |-> type, val |-> <<>>]
PUNYCODE_ERRORS == {"overflow", "not-basic", "invalid-input"}

(***************************************************************************)
(* Small helpers                                                           *)
(***************************************************************************)
SetMax(S) == CHOOSE x \in S : \A y \in S : y <= x

\* String.prototype.lastIndexOf for a one-unit needle: 0-based, -1 if none.
LastIndexOf(s, unit) ==
  LET hits == {j \in 1..Len(s) : s[j] = unit}
  IN  IF hits = {} THEN -1 ELSE SetMax(hits) - 1

\* String.prototype.slice(from) with 0-based from.
Slice(s, from) == IF from >= Len(s) THEN <<>> ELSE SubSeq(s, from + 1, Len(s))

\* Array.prototype.splice(at, 0, x): insert x before 0-based position at.
Splice(s, at, x) == SubSeq(s, 1, at) \o <<x>> \o SubSeq(s, at + 1, Len(s))

\* String.prototype.toLowerCase on the units that have a lowercase form in
\* Basic Latin and Latin-1; every other unit the model uses is caseless.
LowerUnit(u) ==
  IF u >= 65 /\ u <= 90 THEN u + 32
  ELSE IF u >= 192 /\ u <= 222 /\ u # 215 THEN u + 32
  ELSE u
ToLowerCase(s) == [j \in 1..Len(s) |-> LowerUnit(s[j])]

IsHighSurrogate(u) == u >= 55296 /\ u <= 56319
IsLowSurrogate(u) == u >= 56320 /\ u <= 57343

\* One code point as UTF-16 code units (String.fromCodePoint, cp <= 0x10FFFF).
CodePointUnits(cp) ==
  IF cp >= 65536
  THEN <<55296 + ((cp - 65536) \div 1024), 56320 + ((cp - 65536) % 1024)>>
  ELSE <<cp>>

\* The units of the code points cps[lo..hi], in order (the range is split in
\* halves so that the evaluation nests only log2 of its length deep).
RECURSIVE UnitsOf(_, _, _)
UnitsOf(cps, lo, hi) ==
  IF lo > hi THEN <<>>
  ELSE IF lo = hi THEN CodePointUnits(cps[lo])
  ELSE LET mid == (lo + hi) \div 2
       IN  UnitsOf(cps, lo, mid) \o UnitsOf(cps, mid + 1, hi)

\* String.fromCodePoint(...cps): a RangeError if an argument is not a code
\* point, else the string of the code points' units.
FromCodePoint(cps) ==
  IF \E j \in 1..Len(cps) : cps[j] > MaxCodePoint
  THEN Err("invalid-code-point")
  ELSE Ok(UnitsOf(cps, 1, Len(cps)))

(***************************************************************************)
(* basicToDigit, digitToBasic, adapt                                       *)
(***************************************************************************)
basicToDigit(codePoint) ==
  IF codePoint >= 48 /\ codePoint < 58 THEN 26 + (codePoint - 48)
  ELSE IF codePoint >= 65 /\ codePoint < 91 THEN codePoint - 65
  ELSE IF codePoint >= 97 /\ codePoint < 123 THEN codePoint - 97
  ELSE base

\* digitToBasic with the test of flag inverted: uppercase for flag 0.
digitToBasicFlagInverted(digit, flag) ==
  digit + 22 + 75 * (IF digit < 26 THEN 1 ELSE 0)
        - (IF flag = 0 THEN 32 ELSE 0)

digitToBasic(digit, flag) ==
  digit + 22 + 75 * (IF digit < 26 THEN 1 ELSE 0)
        - (IF flag # 0 THEN 32 ELSE 0)

RECURSIVE adaptLoop(_, _)
adaptLoop(delta, k) ==
  IF delta > (baseMinusTMin * tMax) \div 2
  THEN adaptLoop(delta \div baseMinusTMin, k + base)
  ELSE k + ((baseMinusTMin + 1) * delta) \div (delta + skew)

adapt(delta, numPoints, firstTime) ==
  LET d1 == IF firstTime THEN delta \div damp ELSE delta \div 2
      d2 == d1 + (d1 \div numPoints)
  IN  adaptLoop(d2, 0)

\* The threshold of digit position k under the current bias.
Threshold(k, bias) ==
  IF k <= bias THEN tMin ELSE IF k >= bias + tMax THEN tMax ELSE k - bias


(***************************************************************************)
(* decode(input): lines 192-273.  One record holds the locals of a call.   *)
(*   pc = "basic"   the copy loop of the basic code points (209-215)       *)
(*   pc = "main"    the test of the main decoding loop (220)               *)
(*   pc = "digit"   one iteration of the digit loop (227-254)              *)
(*   pc = "insert"  after the digit loop (256-269)                         *)
(*   pc = "return"  String.fromCodePoint(...output) (272)                  *)
(*   pc = "done"    the call has returned or thrown; res is its result     *)
(* index is -1 until the main loop initialises it.                         *)
(***************************************************************************)
DecThrow(d, type) == [d EXCEPT !.pc = "done", !.res = Err(type)]

\* DecInit with `input.indexOf(delimiter)`: the first delimiter, not the last.
DecInitFirstDelimiter(input) ==
  LET hits == {j \in 1..Len(input) : input[j] = delimiter}
      first == IF hits = {} THEN -1
               ELSE (CHOOSE j \in hits : \A h \in hits : j <= h) - 1
  IN  [pc |-> "basic", input |-> input, output |-> <<>>,
       i |-> 0, n |-> initialN, bias |-> initialBias,
       basic |-> IF first < 0 THEN 0 ELSE first,
       j |-> 0, index |-> -1, oldi |-> 0, w |-> 0, k |-> 0,
       res |-> Err("none")]

DecInit(input) ==
  LET last == LastIndexOf(input, delimiter)
  IN  [pc |-> "basic", input |-> input, output |-> <<>>,
       i |-> 0, n |-> initialN, bias |-> initialBias,
       basic |-> IF last < 0 THEN 0 ELSE last,
       j |-> 0, index |-> -1, oldi |-> 0, w |-> 0, k |-> 0,
       res |-> Err("none")]

\* DecBasic without the test of line 211: every unit is copied.
DecBasicUnchecked(d) ==
  IF d.j < d.basic
  THEN [d EXCEPT !.output = Append(d.output, d.input[d.j + 1]),
                 !.j = d.j + 1]
  ELSE [d EXCEPT !.pc = "main",
                 !.index = IF d.basic > 0 THEN d.basic + 1 ELSE 0]

DecBasic(d) ==
  IF d.j < d.basic
  THEN IF d.input[d.j + 1] >= 128
       THEN DecThrow(d, "not-basic")
       ELSE [d EXCEPT !.output = Append(d.output, d.input[d.j + 1]),
                      !.j = d.j + 1]
  ELSE [d EXCEPT !.pc = "main",
                 !.index = IF d.basic > 0 THEN d.basic + 1 ELSE 0]

DecMain(d) ==
  IF d.index < Len(d.input)
  THEN [d EXCEPT !.pc = "digit", !.oldi = d.i, !.w = 1, !.k = base]
  ELSE [d EXCEPT !.pc = "return"]

\* DecDigit with the two tests of lines 234 and 237 merged in one that raises
\* overflow: a character that is no digit is reported as an overflow.
DecDigitMergedTests(d) ==
  IF d.index >= Len(d.input) THEN DecThrow(d, "invalid-input")
  ELSE
    LET digit == basicToDigit(d.input[d.index + 1])
        read == [d EXCEPT !.index = d.index + 1]
    IN  IF digit >= base \/ digit > (maxInt - d.i) \div d.w
        THEN DecThrow(read, "overflow")
        ELSE
          LET i2 == d.i + digit * d.w
              t == Threshold(d.k, d.bias)
              baseMinusT == base - t
              added == [read EXCEPT !.i = i2]
          IN  IF digit < t THEN [added EXCEPT !.pc = "insert"]
              ELSE IF d.w > maxInt \div baseMinusT
                   THEN DecThrow(added, "overflow")
                   ELSE [added EXCEPT !.w = d.w * baseMinusT,
                                      !.k = d.k + base]

DecDigit(d) ==
  IF d.index >= Len(d.input) THEN DecThrow(d, "invalid-input")
  ELSE
    LET digit == basicToDigit(d.input[d.index + 1])
        read == [d EXCEPT !.index = d.index + 1]
    IN  IF digit >= base THEN DecThrow(read, "invalid-input")
        ELSE IF digit > (maxInt - d.i) \div d.w THEN DecThrow(read, "overflow")
        ELSE
          LET i2 == d.i + digit * d.w
              t == Threshold(d.k, d.bias)
              baseMinusT == base - t
              added == [read EXCEPT !.i = i2]
          IN  IF digit < t THEN [added EXCEPT !.pc = "insert"]
              ELSE IF d.w > maxInt \div baseMinusT
                   THEN DecThrow(added, "overflow")
                   ELSE [added EXCEPT !.w = d.w * baseMinusT,
                                      !.k = d.k + base]

\* DecInsert with `output.splice(i, 0, n)`: the cursor is not advanced.
DecInsertNoAdvance(d) ==
  LET out == Len(d.output) + 1
      bias2 == adapt(d.i - d.oldi, out, d.oldi = 0)
      adapted == [d EXCEPT !.bias = bias2]
  IN  IF d.i \div out > maxInt - d.n THEN DecThrow(adapted, "overflow")
      ELSE LET n2 == d.n + (d.i \div out)
               i2 == d.i % out
           IN  [adapted EXCEPT !.pc = "main", !.n = n2, !.i = i2,
                               !.output = Splice(d.output, i2, n2)]

DecInsert(d) ==
  LET out == Len(d.output) + 1
      bias2 == adapt(d.i - d.oldi, out, d.oldi = 0)
      adapted == [d EXCEPT !.bias = bias2]
  IN  IF d.i \div out > maxInt - d.n THEN DecThrow(adapted, "overflow")
      ELSE LET n2 == d.n + (d.i \div out)
               i2 == d.i % out
           IN  [adapted EXCEPT !.pc = "main", !.n = n2, !.i = i2 + 1,
                               !.output = Splice(d.output, i2, n2)]

DecReturn(d) == [d EXCEPT !.pc = "done", !.res = FromCodePoint(d.output)]

DecStep(d) ==
  CASE d.pc = "basic" -> DecBasic(d)
    [] d.pc = "main" -> DecMain(d)
    [] d.pc = "digit" -> DecDigit(d)
    [] d.pc = "insert" -> DecInsert(d)
    [] d.pc = "return" -> DecReturn(d)
    [] OTHER -> d

\* At most k steps of the call, stopping when it is done.  The steps are
\* split in halves so that the evaluation nests only log2(k) deep; the
\* state after the first half is bound to half, so it is computed once.
RECURSIVE DecRun(_, _)
DecRun(d, k) ==
  IF d.pc = "done" \/ k = 0 THEN d
  ELSE IF k = 1 THEN DecStep(d)
  ELSE CHOOSE last \in {DecRun(half, k - (k \div 2)) :
                          half \in {DecRun(d, k \div 2)}} : TRUE

\* The call decode(input), run to its end: the final record of locals.
DecodeCall(input) == DecRun(DecInit(input), MaxSteps)

\* decode(input): what the call returns or throws.
decode(input) == DecodeCall(input).res

(***************************************************************************)
(* ucs2decode(string): lines 92-116, one iteration of the while loop.      *)
(***************************************************************************)
\* Ucs2Iter without the `counter--` of line 109: the unit that failed to
\* pair with a high surrogate is skipped.
Ucs2IterSkipUnmatched(string, counter, output) ==
  LET value == string[counter + 1]
      counter1 == counter + 1
  IN  IF IsHighSurrogate(value) /\ counter1 < Len(string)
      THEN LET extra == string[counter1 + 1]
           IN  IF IsLowSurrogate(extra)
               THEN [counter |-> counter1 + 1,
                     output |-> Append(output,
                        ((value % 1024) * 1024) + (extra % 1024) + 65536)]
               ELSE [counter |-> counter1 + 1,
                     output |-> Append(output, value)]
      ELSE [counter |-> counter1, output |-> Append(output, value)]

Ucs2Iter(string, counter, output) ==
  LET value == string[counter + 1]
      counter1 == counter + 1
  IN  IF IsHighSurrogate(value) /\ counter1 < Len(string)
      THEN LET extra == string[counter1 + 1]
           IN  IF IsLowSurrogate(extra)
               THEN [counter |-> counter1 + 1,
                     output |-> Append(output,
                        ((value % 1024) * 1024) + (extra % 1024) + 65536)]
               ELSE [counter |-> counter1, output |-> Append(output, value)]
      ELSE [counter |-> counter1, output |-> Append(output, value)]

\* At most k iterations of the while loop of lines 96-114, from the loop
\* state it (split in halves so that the evaluation nests log2(k) deep).
RECURSIVE Ucs2Loop(_, _, _)
Ucs2Loop(string, it, k) ==
  IF it.counter >= Len(string) \/ k = 0 THEN it
  ELSE IF k = 1 THEN Ucs2Iter(string, it.counter, it.output)
  ELSE CHOOSE last \in {Ucs2Loop(string, half, k - (k \div 2)) :
                          half \in {Ucs2Loop(string, it, k \div 2)}} : TRUE

ucs2decode(string) ==
  Ucs2Loop(string, [counter |-> 0, output |-> <<>>], MaxSteps).output

\* ucs2encode(codePoints): String.fromCodePoint(...codePoints)
ucs2encode(codePoints) == FromCodePoint(codePoints)

(***************************************************************************)
(* encode(input): lines 282-366.  One record holds the locals of a call.   *)
(*   pc = "ucs2"    the call of ucs2decode (286)                           *)
(*   pc = "basic"   the copy of the basic code points (297-312)            *)
(*   pc = "while"   the test of the main encoding loop, the search of the  *)
(*                  next larger code point and the update of delta and n   *)
(*                  (315-333)                                              *)
(*   pc = "inner"   one code point of the pass over the input (335-363)    *)
(*   pc = "varint"  one digit of the variable-length integer (341-358)     *)
(*   pc = "done"    the call has returned or thrown; res is its result     *)
(* idx is the 0-based position of the for-of loop of line 335.             *)
(***************************************************************************)
EncThrow(e, type) == [e EXCEPT !.pc = "done", !.res = Err(type)]

EncInit(input) ==
  [pc |-> "ucs2", input |-> input, inputArray |-> <<>>,
   output |-> <<>>, n |-> initialN, delta |-> 0, bias |-> initialBias,
   basicLength |-> 0, handledCPCount |-> 0, handledCPCountPlusOne |-> 0,
   m |-> 0, idx |-> 0, q |-> 0, k |-> 0, res |-> Err("none")]

EncUcs2(e) == [e EXCEPT !.pc = "basic", !.inputArray = ucs2decode(e.input)]

IsBasic(currentValue) == currentValue < 128

\* EncBasic without the test of line 310: the delimiter is always appended.
EncBasicAlwaysDelimiter(e) ==
  LET copied == SelectSeq(e.inputArray, IsBasic)
      basicLength == Len(copied)
  IN  [e EXCEPT !.pc = "while",
                !.basicLength = basicLength,
                !.handledCPCount = basicLength,
                !.output = Append(copied, delimiter)]

EncBasic(e) ==
  LET copied == SelectSeq(e.inputArray, IsBasic)
      basicLength == Len(copied)
  IN  [e EXCEPT !.pc = "while",
                !.basicLength = basicLength,
                !.handledCPCount = basicLength,
                !.output = IF basicLength # 0
                           THEN Append(copied, delimiter)
                           ELSE copied]

\* The loop of lines 318-323: the least code point >= n, maxInt if none.
NextLarger(inputArray, n) ==
  LET larger == {inputArray[j] : j \in 1..Len(inputArray)} \cap n..(maxInt - 1)
  IN  IF larger = {} THEN maxInt
      ELSE CHOOSE c \in larger : \A c2 \in larger : c <= c2

EncWhile(e) ==
  IF e.handledCPCount < Len(e.inputArray)
  THEN LET m == NextLarger(e.inputArray, e.n)
           handledCPCountPlusOne == e.handledCPCount + 1
           found == [e EXCEPT !.m = m]
       IN  IF m - e.n > (maxInt - e.delta) \div handledCPCountPlusOne
           THEN EncThrow(found, "overflow")
           ELSE [found EXCEPT !.pc = "inner", !.idx = 0,
                              !.handledCPCountPlusOne = handledCPCountPlusOne,
                              !.delta = e.delta
                                        + (m - e.n) * handledCPCountPlusOne,
                              !.n = m]
  ELSE [e EXCEPT !.pc = "done", !.res = Ok(e.output)]

\* EncInner with the increment of line 337 unchecked, in 32-bit integers:
\* past maxInt the wrapped value is stored.
EncInnerWrapping(e) ==
  IF e.idx < Len(e.inputArray)
  THEN LET currentValue == e.inputArray[e.idx + 1]
       IN  IF currentValue < e.n
           THEN [e EXCEPT !.delta = IF e.delta = maxInt THEN -maxInt - 1
                                    ELSE e.delta + 1,
                          !.idx = e.idx + 1]
           ELSE IF currentValue = e.n
                THEN [e EXCEPT !.pc = "varint", !.q = e.delta, !.k = base]
                ELSE [e EXCEPT !.idx = e.idx + 1]
  ELSE [e EXCEPT !.pc = "while", !.delta = e.delta + 1, !.n = e.n + 1]

\* `++delta > maxInt` is written delta > maxInt - 1: the sum maxInt + 1 is
\* outside the integers this model computes with.
EncInner(e) ==
  IF e.idx < Len(e.inputArray)
  THEN LET currentValue == e.inputArray[e.idx + 1]
       IN  IF currentValue < e.n
           THEN IF e.delta > maxInt - 1
                THEN EncThrow(e, "overflow")
                ELSE [e EXCEPT !.delta = e.delta + 1, !.idx = e.idx + 1]
           ELSE IF currentValue = e.n
                THEN [e EXCEPT !.pc = "varint", !.q = e.delta, !.k = base]
                ELSE [e EXCEPT !.idx = e.idx + 1]
  ELSE [e EXCEPT !.pc = "while", !.delta = e.delta + 1, !.n = e.n + 1]

\* EncVarint without the division of line 352: q keeps its value.
EncVarintKeepsQ(e) ==
  LET t == Threshold(e.k, e.bias)
  IN  IF e.q < t
      THEN [e EXCEPT !.pc = "inner",
                     !.output = Append(e.output, digitToBasic(e.q, 0)),
                     !.bias = adapt(e.delta, e.handledCPCountPlusOne,
                                    e.handledCPCount = e.basicLength),
                     !.delta = 0,
                     !.handledCPCount = e.handledCPCount + 1,
                     !.idx = e.idx + 1]
      ELSE LET qMinusT == e.q - t
               baseMinusT == base - t
           IN  [e EXCEPT !.output = Append(e.output,
                              digitToBasic(t + (qMinusT % baseMinusT), 0)),
                         !.k = e.k + base]

EncVarint(e) ==
  LET t == Threshold(e.k, e.bias)
  IN  IF e.q < t
      THEN [e EXCEPT !.pc = "inner",
                     !.output = Append(e.output, digitToBasic(e.q, 0)),
                     !.bias = adapt(e.delta, e.handledCPCountPlusOne,
                                    e.handledCPCount = e.basicLength),
                     !.delta = 0,
                     !.handledCPCount = e.handledCPCount + 1,
                     !.idx = e.idx + 1]
      ELSE LET qMinusT == e.q - t
               baseMinusT == base - t
           IN  [e EXCEPT !.output = Append(e.output,
                              digitToBasic(t + (qMinusT % baseMinusT), 0)),
                         !.q = qMinusT \div baseMinusT,
                         !.k = e.k + base]

EncStep(e) ==
  CASE e.pc = "ucs2" -> EncUcs2(e)
    [] e.pc = "basic" -> EncBasic(e)
    [] e.pc = "while" -> EncWhile(e)
    [] e.pc = "inner" -> EncInner(e)
    [] e.pc = "varint" -> EncVarint(e)
    [] OTHER -> e

RECURSIVE EncRun(_, _)
EncRun(e, k) ==
  IF e.pc = "done" \/ k = 0 THEN e
  ELSE IF k = 1 THEN EncStep(e)
  ELSE CHOOSE last \in {EncRun(half, k - (k \div 2)) :
                          half \in {EncRun(e, k \div 2)}} : TRUE

\* The call encode(input), run to its end: the final record of locals.
EncodeCall(input) == EncRun(EncInit(input), MaxSteps)

\* encode(input): what the call returns or throws.
encode(input) == EncodeCall(input).res

(***************************************************************************)
(* map, mapDomain, toUnicode, toASCII: lines 46-77 and 378-403.            *)
(***************************************************************************)
\* The pieces of s between the occurrences of the units of seps, in order
\* (one more piece than occurrences).
SplitOn(s, seps) ==
  LET hits == {j \in 1..Len(s) : s[j] \in seps}
      Nth(k) == IF k = 0 THEN 0
                ELSE IF k > Cardinality(hits) THEN Len(s) + 1
                ELSE CHOOSE j \in hits :
                       Cardinality({h \in hits : h < j}) = k - 1
  IN  [k \in 1..(Cardinality(hits) + 1) |->
         SubSeq(s, Nth(k - 1) + 1, Nth(k) - 1)]

\* String.prototype.split(sep) for a one-unit separator.
Split(s, sep) == SplitOn(s, {sep})

\* Array.prototype.join(sep) for a one-unit separator, of pieces[lo..hi].
RECURSIVE JoinRange(_, _, _, _)
JoinRange(pieces, sep, lo, hi) ==
  IF lo > hi THEN <<>>
  ELSE IF lo = hi THEN pieces[lo]
  ELSE LET mid == (lo + hi) \div 2
       IN  JoinRange(pieces, sep, lo, mid) \o <<sep>>
             \o JoinRange(pieces, sep, mid + 1, hi)

Join(pieces, sep) == JoinRange(pieces, sep, 1, Len(pieces))

\* ReplaceSeparators without the `g` flag: only the first separator.
ReplaceFirstSeparator(s) ==
  [j \in 1..Len(s) |->
     IF s[j] \in regexSeparators
        /\ \A h \in 1..(j - 1) : s[h] \notin regexSeparators
     THEN FullStop ELSE s[j]]

\* domain.replace(regexSeparators, '\x2E')
ReplaceSeparators(s) ==
  [j \in 1..Len(s) |-> IF s[j] \in regexSeparators THEN FullStop ELSE s[j]]

regexPunycodeTest(string) ==
  Len(string) >= 4 /\ SubSeq(string, 1, 4) = xnPrefix

regexNonASCIITest(string) == \E j \in 1..Len(string) : string[j] > 127

\* The callback toUnicode passes to mapDomain (379-383).
toUnicodeCallback(string) ==
  IF regexPunycodeTest(string)
  THEN decode(ToLowerCase(Slice(string, 4)))
  ELSE Ok(string)

\* toASCIICallback with the test inverted: ASCII labels are encoded.
toASCIICallbackInverted(string) ==
  IF ~regexNonASCIITest(string)
  THEN LET r == encode(string)
       IN  IF r.kind = "ok" THEN Ok(xnPrefix \o r.val) ELSE r
  ELSE Ok(string)

\* The callback toASCII passes to mapDomain (398-402).
toASCIICallback(string) ==
  IF regexNonASCIITest(string)
  THEN LET r == encode(string)
       IN  IF r.kind = "ok" THEN Ok(xnPrefix \o r.val) ELSE r
  ELSE Ok(string)

callback(fn, string) ==
  IF fn = "toUnicode" THEN toUnicodeCallback(string)
  ELSE toASCIICallback(string)

\* map(array, callback): `while (length--)` calls the callback from the last
\* item to the first; an exception thrown by a call ends the loop.  The
\* result is the list of the callback's results, or the error thrown.
RECURSIVE mapLoop(_, _, _, _)
mapLoop(array, fn, length, result) ==
  IF length = 0 THEN [kind |-> "ok", val |-> result]
  ELSE LET r == callback(fn, array[length])
       IN  IF r.kind # "ok" THEN r
           ELSE mapLoop(array, fn, length - 1, <<r.val>> \o result)

map(array, fn) == mapLoop(array, fn, Len(array), <<>>)

mapDomain(domain, fn) ==
  LET parts == Split(domain, AtSign)
      result == IF Len(parts) > 1 THEN Append(parts[1], AtSign) ELSE <<>>
      domain1 == IF Len(parts) > 1 THEN parts[2] ELSE domain
      domain2 == ReplaceSeparators(domain1)
      labels == Split(domain2, FullStop)
      encoded == map(labels, fn)
  IN  IF encoded.kind # "ok" THEN encoded
      ELSE Ok(result \o Join(encoded.val, FullStop))

toUnicode(input) == mapDomain(input, "toUnicode")

toASCII(input) == mapDomain(input, "toASCII")

(***************************************************************************)
(* The state machine.                                                      *)
(*   input  the argument of the call under study                           *)
(*   dec    the locals of a decode(input) call                             *)
(*   enc    the locals of an encode(input) call                            *)
(*   back   once the call has returned: the result of the inverse          *)
(*          function applied to the returned string                        *)
(*   ops    the domain functions applied to input so far, in order         *)
(*   vals   their results: vals[1] = ops[1](input), vals[2] =              *)
(*          ops[2](vals[1].val)                                            *)
(***************************************************************************)
VARIABLES input, dec, enc, back, ops, vals

vars == <<input, dec, enc, back, ops, vals>>

\* Bounds of the model.
MaxTokens == 3
MaxCalls == 2
LongBasic == 1927

\* All concatenations of at most n strings of T.
RECURSIVE Concats(_, _)
Concats(T, n) ==
  IF n = 0 THEN {<<>>}
  ELSE LET shorter == Concats(T, n - 1)
       IN  shorter \cup {s \o t : s \in shorter, t \in T}

\* decode's arguments: "a", "A", "z", "99", "-", "=", "\x81", "xyz-",
\* "ib9b66e", which decodes to U+D800 followed by U+DC00, and "7016146o",
\* the integer maxInt - 129, which makes n = maxInt - 1.
DecodeTokens ==
  { <<97>>, <<65>>, <<122>>, <<57, 57>>, <<45>>, <<61>>, <<129>>,
    <<120, 121, 122, 45>>, <<105, 98, 57, 98, 54, 54, 101>>,
    <<55, 48, 49, 54, 49, 52, 54, 111>> }

DecodeInputs == Concats(DecodeTokens, MaxTokens)

\* encode's arguments: "a", "-", U+00FC, U+3002, the pair U+D83C U+DF55,
\* the lone surrogates U+D800 and U+DC00; and one long string, LongBasic
\* times "a" followed by the pair U+DBFF U+DFFF (code point 0x10FFFF).
EncodeTokens ==
  { <<97>>, <<45>>, <<252>>, <<12290>>, <<55356, 57173>>,
    <<55296>>, <<56320>> }

LongInput == [j \in 1..LongBasic |-> 97] \o <<56319, 57343>>

\* LongBasic times "a" followed by the code point 128 + floor(maxInt /
\* (LongBasic + 1)): the update of delta at line 332 just fits in maxInt,
\* the increments of line 337 that follow do not.
TightInput ==
  [j \in 1..LongBasic |-> 97]
    \o CodePointUnits(initialN + (maxInt \div (LongBasic + 1)))

EncodeInputs == Concats(EncodeTokens, MaxTokens) \cup {LongInput, TightInput}

\* toASCII's and toUnicode's arguments: "xn--", "XN--", "a", "-", "@",
\* ".", U+3002, U+FF0E, U+FF61, U+00FC.
DomainTokens ==
  { xnPrefix, <<88, 78, 45, 45>>, <<97>>, <<45>>, <<64>>, <<46>>,
    <<12290>>, <<65294>>, <<65377>>, <<252>> }

DomainInputs == Concats(DomainTokens, MaxTokens)

NoCall == Err("none")
IdleDec == [DecInit(<<>>) EXCEPT !.pc = "idle"]
IdleEnc == [EncInit(<<>>) EXCEPT !.pc = "idle"]

(***************************************************************************)
(* A decode(input) call, step by step, then encode of what it returned.    *)
(***************************************************************************)
InitDecode ==
  /\ input \in DecodeInputs
  /\ dec = DecInit(input)
  /\ enc = IdleEnc
  /\ back = NoCall
  /\ ops = <<>>
  /\ vals = <<>>

DecodeAt(pc) ==
  /\ dec.pc = pc
  /\ dec' = DecStep(dec)
  /\ UNCHANGED <<input, enc, back, ops, vals>>

DecodeBasic == DecodeAt("basic")
DecodeMain == DecodeAt("main")
DecodeDigit == DecodeAt("digit")
DecodeInsert == DecodeAt("insert")
DecodeReturn == DecodeAt("return")

EncodeDecoded ==
  /\ dec.pc = "done"
  /\ dec.res.kind = "ok"
  /\ back = NoCall
  /\ back' = encode(dec.res.val)
  /\ UNCHANGED <<input, dec, enc, ops, vals>>

NextDecode ==
  \/ DecodeBasic
  \/ DecodeMain
  \/ DecodeDigit
  \/ DecodeInsert
  \/ DecodeReturn
  \/ EncodeDecoded

SpecDecode == InitDecode /\ [][NextDecode]_vars

(***************************************************************************)
(* An encode(input) call, step by step, then decode of what it returned.   *)
(***************************************************************************)
InitEncode ==
  /\ input \in EncodeInputs
  /\ enc = EncInit(input)
  /\ dec = IdleDec
  /\ back = NoCall
  /\ ops = <<>>
  /\ vals = <<>>

EncodeAt(pc) ==
  /\ enc.pc = pc
  /\ enc' = EncStep(enc)
  /\ UNCHANGED <<input, dec, back, ops, vals>>

EncodeUcs2 == EncodeAt("ucs2")
EncodeBasic == EncodeAt("basic")
EncodeWhile == EncodeAt("while")
EncodeInner == EncodeAt("inner")
EncodeVarint == EncodeAt("varint")

DecodeEncoded ==
  /\ enc.pc = "done"
  /\ enc.res.kind = "ok"
  /\ back = NoCall
  /\ back' = decode(enc.res.val)
  /\ UNCHANGED <<input, dec, enc, ops, vals>>

NextEncode ==
  \/ EncodeUcs2
  \/ EncodeBasic
  \/ EncodeWhile
  \/ EncodeInner
  \/ EncodeVarint
  \/ DecodeEncoded

SpecEncode == InitEncode /\ [][NextEncode]_vars

(***************************************************************************)
(* Both codec functions: a call of decode or a call of encode, step by     *)
(* step, then the inverse function on what it returned.                    *)
(***************************************************************************)
InitCodec == InitDecode \/ InitEncode

NextCodec ==
  \/ NextDecode
  \/ NextEncode

SpecCodec == InitCodec /\ [][NextCodec]_vars

\* The steps of the call under way.
CallSteps ==
  \/ DecodeBasic \/ DecodeMain \/ DecodeDigit \/ DecodeInsert \/ DecodeReturn
  \/ EncodeUcs2 \/ EncodeBasic \/ EncodeWhile \/ EncodeInner \/ EncodeVarint

\* decode and encode are synchronous functions: once called, the engine
\* runs their statements one after the other until the call returns or
\* throws, so a step of the call that can be taken is taken.
SpecCodecFair == SpecCodec /\ WF_vars(CallSteps)

(***************************************************************************)
(* toASCII and toUnicode, applied to input and then to their own results.  *)
(***************************************************************************)
InitDomain ==
  /\ input \in DomainInputs
  /\ dec = IdleDec
  /\ enc = IdleEnc
  /\ back = NoCall
  /\ ops = <<>>
  /\ vals = <<>>

\* The argument of the next call: input, or the string the last call returned.
Current == IF ops = <<>> THEN Ok(input) ELSE vals[Len(vals)]

CallToASCII ==
  /\ Len(ops) < MaxCalls
  /\ Current.kind = "ok"
  /\ ops' = Append(ops, "toASCII")
  /\ vals' = Append(vals, toASCII(Current.val))
  /\ UNCHANGED <<input, dec, enc, back>>

CallToUnicode ==
  /\ Len(ops) < MaxCalls
  /\ Current.kind = "ok"
  /\ ops' = Append(ops, "toUnicode")
  /\ vals' = Append(vals, toUnicode(Current.val))
  /\ UNCHANGED <<input, dec, enc, back>>

NextDomain ==
  \/ CallToASCII
  \/ CallToUnicode

SpecDomain == InitDomain /\ [][NextDomain]_vars

(***************************************************************************)
(* Properties                                                              *)
(***************************************************************************)
\* s is well-formed UTF-16: every surrogate is half of a pair.
NoLoneSurrogate(s) ==
  \A j \in 1..Len(s) :
    /\ IsHighSurrogate(s[j]) => (j < Len(s) /\ IsLowSurrogate(s[j + 1]))
    /\ IsLowSurrogate(s[j]) => (j > 1 /\ IsHighSurrogate(s[j - 1]))

IsSurrogate(u) == IsHighSurrogate(u) \/ IsLowSurrogate(u)

\* 1-based position of the first '@' of x, 0 if there is none.
AtIndex(x) ==
  LET hits == {j \in 1..Len(x) : x[j] = AtSign}
  IN  IF hits = {} THEN 0 ELSE CHOOSE j \in hits : \A h \in hits : j <= h

Apply(op, x) == IF op = "toASCII" THEN toASCII(x) ELSE toUnicode(x)

\* C1 as stated: for every string s without a lone surrogate, encode(s)
\* returns and decode of what it returned is exactly s.
C1_RoundTripEveryString ==
  (enc.pc = "done" /\ NoLoneSurrogate(input))
    => /\ enc.res.kind = "ok"
       /\ back # NoCall => back = Ok(input)

\* C1 amended: for every string s without a lone surrogate on which encode
\* does not fail with Overflow, encode(s) returns, and decode of what it
\* returned is exactly s unless that decode fails with Overflow.
C1_RoundTripUnlessOverflow ==
  (enc.pc = "done" /\ NoLoneSurrogate(input) /\ enc.res.kind # "overflow")
    => /\ enc.res.kind = "ok"
       /\ back # NoCall => (back.kind = "overflow" \/ back = Ok(input))

\* A round trip of a string with basic code points, a non-basic code point
\* and a surrogate pair.
C1_Witness ==
  /\ back = Ok(input)
  /\ NoLoneSurrogate(input)
  /\ \E j \in 1..Len(input) : input[j] < 128
  /\ \E j \in 1..Len(input) : input[j] = 252
  /\ \E j \in 1..Len(input) : IsHighSurrogate(input[j])

\* C2 as stated: for every string p that decode accepts,
\* encode(decode(p)) is exactly p.
C2_RoundTripEveryAccepted ==
  back # NoCall => back = Ok(input)

\* No uppercase letter after the last delimiter of p.
LowercaseDigits(p) ==
  \A j \in (LastIndexOf(p, delimiter) + 2)..Len(p) : ~(p[j] >= 65 /\ p[j] <= 90)

\* C2 amended: for every string p that decode accepts, that has no uppercase
\* letter after its last delimiter and for which decode inserts no surrogate
\* code point (U+D800..U+DFFF), encode(decode(p)) is exactly p.
C2_RoundTripCanonical ==
  (/\ back # NoCall
   /\ LowercaseDigits(input)
   /\ \A j \in 1..Len(dec.output) : ~IsSurrogate(dec.output[j]))
    => back = Ok(input)

\* A round trip of a string with a basic prefix and an encoded code point.
C2_Witness ==
  /\ back = Ok(input)
  /\ dec.basic > 0
  /\ \E j \in 1..Len(dec.output) : dec.output[j] >= 128

\* C3: toUnicode is idempotent: whenever toUnicode(x) returns,
\* toUnicode(toUnicode(x)) returns the same string.
C3_ToUnicodeIdempotent ==
  (Len(ops) >= 2 /\ ops[1] = "toUnicode" /\ ops[2] = "toUnicode")
    => vals[2] = vals[1]

\* C4: toASCII is idempotent: whenever toASCII(x) returns,
\* toASCII(toASCII(x)) returns the same string.
C4_ToASCIIIdempotent ==
  (Len(ops) >= 2 /\ ops[1] = "toASCII" /\ ops[2] = "toASCII")
    => vals[2] = vals[1]

\* toASCII applied twice to an input that the first call converted.
C4_Witness ==
  /\ Len(ops) >= 2 /\ ops[1] = "toASCII" /\ ops[2] = "toASCII"
  /\ vals[2].kind = "ok"
  /\ vals[1].val # input
  /\ AtIndex(input) > 0

\* C5: a call of decode returns or fails with one of the three error kinds
\* Overflow, NotBasic, InvalidInput; no other failure is reachable.
C5_OnlyThreeErrorKinds ==
  dec.pc = "done" => dec.res.kind \in {"ok"} \cup PUNYCODE_ERRORS

\* C6: when the input contains an '@', the output is the input up to and
\* including the first '@', followed by the transformed labels of the whole
\* remainder after that '@' (further '@' included); nothing is dropped.
C6_SplitOnceOnFirstAt ==
  (Len(ops) >= 1 /\ AtIndex(input) > 0)
    => LET head == SubSeq(input, 1, AtIndex(input))
           rest == SubSeq(input, AtIndex(input) + 1, Len(input))
           mapped == map(Split(ReplaceSeparators(rest), FullStop), ops[1])
       IN  vals[1] = IF mapped.kind = "ok"
                     THEN Ok(head \o Join(mapped.val, FullStop))
                     ELSE mapped

\* x is one label: it has no '@' and no separator.
IsSingleLabel(x) ==
  \A j \in 1..Len(x) : x[j] \notin (regexSeparators \cup {AtSign})

HasXnPrefixAnyCase(x) ==
  Len(x) >= 4 /\ ToLowerCase(SubSeq(x, 1, 4)) = xnPrefix

\* C7: toUnicode replaces a label whose first four characters are `xn--` in
\* any letter case by decode(lowercased(rest of the label)), and leaves
\* every other label unchanged (stated for an input of one label).
C7_PrefixAnyCase ==
  (Len(ops) >= 1 /\ ops[1] = "toUnicode" /\ IsSingleLabel(input))
    => vals[1] = IF HasXnPrefixAnyCase(input)
                 THEN decode(ToLowerCase(Slice(input, 4)))
                 ELSE Ok(input)

\* C8: toASCII returns every string of code points below 0x80 unchanged.
C8_ASCIIUnchanged ==
  (/\ Len(ops) >= 1
   /\ ops[1] = "toASCII"
   /\ \A j \in 1..Len(input) : input[j] < 128)
    => vals[1] = Ok(input)

\* x with every separator after its first '@' (of all of x if it has no
\* '@') replaced by U+002E.
NormalizedDomain(x) ==
  [j \in 1..Len(x) |->
     IF j > AtIndex(x) /\ x[j] \in regexSeparators THEN FullStop ELSE x[j]]

\* The part of x that mapDomain splits in labels, and what precedes it.
DomainPart(x) ==
  LET parts == Split(x, AtSign)
  IN  IF Len(parts) > 1 THEN parts[2] ELSE x

LocalPart(x) ==
  IF AtIndex(x) > 0 THEN SubSeq(x, 1, AtIndex(x)) ELSE <<>>

\* C9: the four separators are equivalent in the domain part: toASCII(x)
\* and toUnicode(x) equal the result for x with U+3002, U+FF0E and U+FF61
\* of its domain part replaced by U+002E; the result is the transformed
\* labels in their original order, joined with U+002E, after the local part.
C9_SeparatorsEquivalent ==
  Len(ops) >= 1
    => /\ vals[1] = Apply(ops[1], NormalizedDomain(input))
       /\ LET labels == SplitOn(DomainPart(input), regexSeparators)
              results == [k \in 1..Len(labels) |-> callback(ops[1], labels[k])]
          IN  IF \A k \in 1..Len(labels) : results[k].kind = "ok"
              THEN vals[1] =
                     Ok(LocalPart(input)
                        \o Join([k \in 1..Len(labels) |-> results[k].val],
                                FullStop))
              ELSE vals[1].kind # "ok"

\* A call that returned, on an input with an ideographic or halfwidth
\* separator in its domain part and a label that the call transformed.
C9_Witness ==
  /\ Len(ops) = 1
  /\ vals[1].kind = "ok"
  /\ \E j \in (AtIndex(input) + 1)..Len(input) :
       input[j] \in (regexSeparators \ {FullStop})
  /\ vals[1].val # NormalizedDomain(input)
  /\ \E j \in 1..Len(input) : input[j] = 252

\* A unit >= 0x80 stands before the last delimiter of x.
NonBasicBeforeDelimiter(x) ==
  \E j \in 1..LastIndexOf(x, delimiter) : x[j] >= 128

\* C10: when a unit >= 0x80 stands before the last delimiter, decode fails
\* with NotBasic, and it does so in the copy loop of the basic prefix: the
\* main loop never starts, no character after the delimiter is read.
C10_NotBasicFirst ==
  NonBasicBeforeDelimiter(input)
    => /\ dec.pc \in {"basic", "done"}
       /\ dec.index = -1
       /\ dec.pc = "done" => dec.res = Err("not-basic")

\* decode failed with NotBasic on an input whose part after the last
\* delimiter holds a character that is not a digit.
C10_Witness ==
  /\ dec.pc = "done"
  /\ dec.res.kind = "not-basic"
  /\ \E j \in (LastIndexOf(input, delimiter) + 2)..Len(input) :
       basicToDigit(input[j]) = base

\* C11: decode("\x81"), the input of the single unit 0x81 without a
\* delimiter, fails with Overflow.
C11_SingleNonBasicOverflows ==
  (input = <<129>> /\ dec.pc = "done") => dec.res = Err("overflow")

\* C12: decode("xyz-"), where the last delimiter is the final character and
\* nothing follows the basic prefix, fails with InvalidInput.
C12_TrailingDelimiterInvalid ==
  (input = <<120, 121, 122, 45>> /\ dec.pc = "done")
    => dec.res = Err("invalid-input")

\* The characters 0-9, A-Z and a-z.
DigitCharacters == (48..57) \cup (65..90) \cup (97..122)

IsLowHalf(s, j) ==
  j > 1 /\ IsLowSurrogate(s[j]) /\ IsHighSurrogate(s[j - 1])

\* The values of s in order: one per pair, one per other unit.
PairedValues(s) ==
  LET valueAt(j) ==
        IF IsLowHalf(s, j) THEN -1
        ELSE IF j < Len(s) /\ IsLowHalf(s, j + 1)
             THEN (s[j] - 55296) * 1024 + (s[j + 1] - 56320) + 65536
             ELSE s[j]
      IsValue(v) == v >= 0
  IN  SelectSeq([j \in 1..Len(s) |-> valueAt(j)], IsValue)

\* C14: ucs2decode yields, in the order of the input, one value
\* ((high & 0x3FF) << 10) + (low & 0x3FF) + 0x10000 for every high surrogate
\* immediately followed by a low surrogate, the raw value of an unmatched
\* high surrogate (the unit after it is processed on its own and can start
\* a pair), and the own value of every other unit, lone low surrogates
\* included.
C14_Ucs2DecodePairs ==
  enc.pc \notin {"idle", "ucs2"} => enc.inputArray = PairedValues(input)

\* ucs2decode has returned on an input with an unmatched high surrogate
\* followed by a pair, and a lone low surrogate.
C14_Witness ==
  /\ enc.pc = "basic"
  /\ \E j \in 1..(Len(input) - 2) :
        /\ IsHighSurrogate(input[j]) /\ IsHighSurrogate(input[j + 1])
        /\ IsLowHalf(input, j + 2)
  /\ \E j \in 1..Len(input) :
        IsLowSurrogate(input[j]) /\ ~IsLowHalf(input, j)

\* The main loop of decode is about to start: the basic code points have
\* been copied and no code point has been inserted yet.
AtDigitStart == dec.pc = "main" /\ Len(dec.output) = dec.basic

\* The next character that the digit loop reads is a delimiter.
ReadsDelimiter ==
  dec.pc = "digit" /\ dec.index < Len(input)
    /\ input[dec.index + 1] = delimiter

\* C15 as stated: for every input with a delimiter, one whose last or only
\* delimiter is its first character included, decode starts reading digits
\* just after the last delimiter and never reads the delimiter as a digit;
\* only without a delimiter does it start at index 0.
C15_StartAfterLastDelimiter ==
  LET last == LastIndexOf(input, delimiter)
  IN  /\ AtDigitStart => dec.index = IF last >= 0 THEN last + 1 ELSE 0
      /\ ~ReadsDelimiter

\* C15 amended: when at least one character stands before the last
\* delimiter, decode starts reading digits just after the last delimiter and
\* never reads a delimiter as a digit; when the input has no delimiter or
\* its last delimiter is its first character, decode starts at index 0, and
\* in the latter case it reads that delimiter as a digit and fails with
\* InvalidInput.
C15_StartAfterCopiedPrefix ==
  LET last == LastIndexOf(input, delimiter)
  IN  /\ AtDigitStart => dec.index = IF last > 0 THEN last + 1 ELSE 0
      /\ ReadsDelimiter => (last = 0 /\ dec.index = 0)
      /\ (last = 0 /\ dec.pc = "done")
            => (dec.res = Err("invalid-input") /\ dec.index = 1)

\* decode returned on an input with two delimiters and digits after the
\* last one: the first delimiter was copied, a code point was inserted.
C15_Witness ==
  /\ dec.pc = "done"
  /\ dec.res.kind = "ok"
  /\ LastIndexOf(input, delimiter) > 0
  /\ \E j \in 1..LastIndexOf(input, delimiter) : input[j] = delimiter
  /\ Len(dec.output) > dec.basic

\* The call whose locals are c (dec or enc) runs or has returned.
NotFailed(c) == c.pc # "idle" /\ c.res.kind \in {"none", "ok"}

\* C16: in every state of a decode or encode call that has not failed, n,
\* bias, delta (encode), i and the weight w (decode) are integers between 0
\* and 2^31 - 1: no addition or multiplication stores a larger or a wrapped
\* value, the unchecked `++delta; ++n` at the end of an encode pass
\* included; the call fails with Overflow instead.
C16_CodecVariablesInRange ==
  /\ NotFailed(dec)
       => /\ dec.n \in 0..maxInt /\ dec.bias \in 0..maxInt
          /\ dec.i \in 0..maxInt /\ dec.w \in 0..maxInt
  /\ NotFailed(enc)
       => /\ enc.n \in 0..maxInt /\ enc.bias \in 0..maxInt
          /\ enc.delta \in 0..maxInt
  /\ (dec.res.kind = "overflow" \/ enc.res.kind = "overflow")
       => dec.pc = "done" \/ enc.pc = "done"

\* encode has stored delta = 2^31 - 1 and has not failed: the next
\* increment of delta is the one that must fail.
C16_Witness ==
  /\ NotFailed(enc)
  /\ enc.pc = "inner"
  /\ enc.delta = maxInt
  /\ enc.idx < Len(enc.inputArray)
  /\ enc.inputArray[enc.idx + 1] < enc.n

\* The units of s below 0x80, in order (a surrogate is never below 0x80, so
\* these are the code points of s below 0x80).
BasicUnits(s) ==
  LET Below80(u) == u < 128
  IN  SelectSeq(s, Below80)

\* The characters a-z and 0-9.
LowercaseDigitCharacters == (97..122) \cup (48..57)

\* What follows the basic code points and their delimiter in out, for an
\* input with b code points below 0x80.
Suffix(out, b) == IF b = 0 THEN out ELSE Slice(out, b + 1)

\* C17: what encode(s) returns has only units below 0x80 and is: the code
\* points of s below 0x80, verbatim and in order; then one delimiter if and
\* only if there is such a code point; then only lowercase letters a-z and
\* digits 0-9.
C17_EncodeOutputShape ==
  (enc.pc = "done" /\ enc.res.kind = "ok")
    => LET out == enc.res.val
           basics == BasicUnits(input)
           b == Len(basics)
       IN  /\ \A j \in 1..Len(out) : out[j] < 128
           /\ Len(out) >= b
           /\ SubSeq(out, 1, b) = basics
           /\ b > 0 => (Len(out) > b /\ out[b + 1] = delimiter)
           /\ \A j \in 1..Len(Suffix(out, b)) :
                 Suffix(out, b)[j] \in LowercaseDigitCharacters

\* encode returned on an input with a '-' and a code point that is not
\* basic between two basic code points; the suffix has a letter and a digit.
C17_Witness ==
  /\ enc.pc = "done"
  /\ enc.res.kind = "ok"
  /\ Len(input) = 3
  /\ input[1] = delimiter /\ input[2] >= 128 /\ input[3] < 128
  /\ LET suffix == Suffix(enc.res.val, Len(BasicUnits(input)))
     IN  /\ \E j \in 1..Len(suffix) : suffix[j] \in 97..122
         /\ \E j \in 1..Len(suffix) : suffix[j] \in 48..57

\* The call of decode or encode has returned or thrown.
Finished == dec.pc = "done" \/ enc.pc = "done"

\* A pass of encode's main loop ends having handled a code point that was
\* not handled when the pass began (handledCPCountPlusOne is set at the
\* beginning of the pass, to one more than the count of handled then).
PassHandlesOne ==
  (enc.pc = "inner" /\ enc'.pc = "while")
    => enc'.handledCPCount >= enc.handledCPCountPlusOne

\* An iteration of the emission loop that goes on leaves q smaller.
VarintDecreasesQ ==
  (enc.pc = "varint" /\ enc'.pc = "varint") => (enc'.q < enc.q /\ enc'.q >= 0)

\* An iteration of the digit loop consumes one character or fails.
DigitConsumesOrFails ==
  (dec.pc = "digit" /\ dec' # dec)
    => \/ dec'.index = dec.index + 1
       \/ dec'.pc = "done" /\ dec'.res.kind \in PUNYCODE_ERRORS

\* C18: every call of encode and of decode eventually returns or fails:
\* each pass of encode's main loop handles at least one code point not yet
\* handled, the emission loop of the variable-length integer strictly
\* decreases q, and each iteration of decode's digit loop consumes one
\* character of the input or fails.
C18_CallsFinish ==
  /\ <>Finished
  /\ [][PassHandlesOne /\ VarintDecreasesQ /\ DigitConsumesOrFails]_vars

\* encode returned after a pass that handled two code points at once and a
\* later pass, with an integer of several digits.
C18_Witness ==
  /\ enc.pc = "done"
  /\ enc.res.kind = "ok"
  /\ enc.handledCPCount = 3
  /\ enc.basicLength = 0
  /\ enc.handledCPCountPlusOne = 3
  /\ enc.k > base

====
